---- MODULE Spec2Model ----
(***************************************************************************)
(* Model of src/ffmpeg_smart_trim/trim.py: the TrimVideo object (keyframe  *)
(* timeline, duration, session time range), its keyframe lookups, the      *)
(* segment planner generate_trim, and the command-line pipeline of         *)
(* __main__ (plan, copy batch, transcode batch, merge, clean).             *)
(*                                                                         *)
(* Timestamps are Decimal in the source (exact arithmetic, only compared,  *)
(* never added); they are modelled as the integers 0..MaxT.                *)
(***************************************************************************)
EXTENDS Integers, Sequences, FiniteSets, TLC

\* ---- bounds ----
MaxT == 4
MaxLen == 3

Times == 0..MaxT

\* key_frame_timestamps as delivered by the probe: non-empty, ascending in
\* presentation order, duplicates allowed
AscSeqs ==
    {s \in UNION {[1..n -> Times] : n \in 1..MaxLen} :
        \A i \in 1..(Len(s) - 1) : s[i] <= s[i + 1]}

VARIABLES
    key_frame_timestamps,  \* self.key_frame_timestamps
    duration,              \* self.duration
    time_range,            \* self.time_range, <<start, end>>
    request,               \* arguments of the last generate_trim call, <<>> before any call
    trim_files,            \* returned files
    fast_trims_cmd,        \* returned fast_trims (copy jobs)
    slow_trims_cmd,        \* returned slow_trims (transcode jobs)
    lookup,                \* last keyframe lookup: function, argument, result
    pc,                    \* position of __main__
    fast_run,              \* outcome of the copy batch run
    slow_run,              \* outcome of the transcode batch run
    merge_run              \* outcome of the merge run

vars == <<key_frame_timestamps, duration, time_range, request, trim_files,
          fast_trims_cmd, slow_trims_cmd, lookup, pc, fast_run, slow_run, merge_run>>

objectVars == <<key_frame_timestamps, duration, time_range>>
planVars == <<request, trim_files, fast_trims_cmd, slow_trims_cmd>>
runVars == <<pc, fast_run, slow_run, merge_run>>

\* ---- find_before_timestamp (lines 31-37) ----
RECURSIVE FindBeforeScan(_, _, _)
FindBeforeScan(i, timestamp, last_timestamp) ==
    IF i > Len(key_frame_timestamps) THEN last_timestamp
    ELSE IF key_frame_timestamps[i] > timestamp THEN last_timestamp
    ELSE FindBeforeScan(i + 1, timestamp, key_frame_timestamps[i])

RECURSIVE FindBeforeScanGe(_, _, _)
FindBeforeScanGe(i, timestamp, last_timestamp) ==
    IF i > Len(key_frame_timestamps) THEN last_timestamp
    ELSE IF key_frame_timestamps[i] >= timestamp THEN last_timestamp
    ELSE FindBeforeScanGe(i + 1, timestamp, key_frame_timestamps[i])

find_before_timestamp_ge(timestamp) ==
    FindBeforeScanGe(1, timestamp, key_frame_timestamps[1])

find_before_timestamp(timestamp) ==
    FindBeforeScan(1, timestamp, key_frame_timestamps[1])

\* ---- find_after_timestamp (lines 39-45) ----
RECURSIVE FindAfterScan(_, _, _)
FindAfterScan(i, timestamp, last_timestamp) ==
    IF i < 1 THEN last_timestamp
    ELSE IF key_frame_timestamps[i] < timestamp THEN last_timestamp
    ELSE FindAfterScan(i - 1, timestamp, key_frame_timestamps[i])

RECURSIVE FindAfterScanLe(_, _, _)
FindAfterScanLe(i, timestamp, last_timestamp) ==
    IF i < 1 THEN last_timestamp
    ELSE IF key_frame_timestamps[i] <= timestamp THEN last_timestamp
    ELSE FindAfterScanLe(i - 1, timestamp, key_frame_timestamps[i])

find_after_timestamp_le(timestamp) ==
    FindAfterScanLe(Len(key_frame_timestamps), timestamp, duration)

find_after_timestamp_last(timestamp) ==
    FindAfterScan(Len(key_frame_timestamps), timestamp,
                  key_frame_timestamps[Len(key_frame_timestamps)])

find_after_timestamp(timestamp) ==
    FindAfterScan(Len(key_frame_timestamps), timestamp, duration)

\* ---- generate_trim (lines 47-94) ----
\* lines 48-49
clamp_start(start_time) ==
    IF start_time < time_range[1] THEN time_range[1] ELSE start_time

\* lines 50-51
clamp_end(end_time) ==
    IF end_time > time_range[2] THEN time_range[2] ELSE end_time

\* lines 61-65: one ffmpeg output job
trim(start, end, path, copy) ==
    [ss |-> start, to |-> end, path |-> path, copy |-> copy]

\* temp file names, prefix ''
output == "_output.ts"
start_file == "_start.ts"
end_file == "_end.ts"
middle_file == "_middle.ts"

\* line 67
same_key_frame_ge(start_key_frame, end_key_frame) == start_key_frame >= end_key_frame

same_key_frame(start_key_frame, end_key_frame) == start_key_frame > end_key_frame

\* lines 76-79
slow_trims_of(start_time, end_time, start_key_frame, end_key_frame, start_valid, end_valid) ==
    (IF start_valid THEN <<trim(start_time, start_key_frame, start_file, FALSE)>> ELSE <<>>)
    \o (IF end_valid THEN <<trim(end_key_frame, end_time, end_file, FALSE)>> ELSE <<>>)

\* lines 81-84
files_no_middle(start_valid, end_valid) ==
    (IF start_valid THEN <<start_file>> ELSE <<>>)
    \o (IF end_valid THEN <<end_file>> ELSE <<>>)

\* lines 88-92
files_with_middle_dropped(start_valid, end_valid) ==
    (IF start_valid THEN <<start_file>> ELSE <<>>)
    \o (IF end_valid THEN <<end_file>> ELSE <<>>)

files_with_middle(start_valid, end_valid) ==
    (IF start_valid THEN <<start_file>> ELSE <<>>)
    \o <<middle_file>>
    \o (IF end_valid THEN <<end_file>> ELSE <<>>)

generate_trim(start_arg, end_arg) ==
    LET start_time == clamp_start(start_arg)
        end_time == clamp_end(end_arg)
        start_key_frame == find_after_timestamp(start_time)
        end_key_frame == find_before_timestamp(end_time)
    IN  IF same_key_frame(start_key_frame, end_key_frame)
        THEN [files |-> <<output>>,
              fast_trims |-> <<>>,
              slow_trims |-> <<trim(start_time, end_time, output, FALSE)>>]
        ELSE
          LET start_valid == start_time # start_key_frame
              end_valid == end_time # end_key_frame
              slow_trims == slow_trims_of(start_time, end_time, start_key_frame,
                                          end_key_frame, start_valid, end_valid)
          IN  IF start_key_frame = end_key_frame
              THEN [files |-> files_no_middle(start_valid, end_valid),
                    fast_trims |-> <<>>,
                    slow_trims |-> slow_trims]
              ELSE [files |-> files_with_middle(start_valid, end_valid),
                    fast_trims |-> <<trim(start_key_frame, end_key_frame, middle_file, TRUE)>>,
                    slow_trims |-> slow_trims]

\* ---- construction ----
NoLookup == [fn |-> "none", timestamp |-> 0, result |-> 0]

InitObject ==
    /\ key_frame_timestamps \in AscSeqs
    /\ duration \in key_frame_timestamps[Len(key_frame_timestamps)]..MaxT
    /\ request = <<>>
    /\ trim_files = <<>>
    /\ fast_trims_cmd = <<>>
    /\ slow_trims_cmd = <<>>
    /\ lookup = NoLookup
    /\ pc = "constructed"
    /\ fast_run = "not_run"
    /\ slow_run = "not_run"
    /\ merge_run = "not_run"

\* a TrimVideo whose session range is a well-formed range (lines 17-25)
Init ==
    /\ InitObject
    /\ time_range \in {r \in Times \X Times : r[1] <= r[2]}

\* __main__ lines 123-126: the session range is the command-line range as given
InitMain ==
    /\ InitObject
    /\ time_range \in Times \X Times

\* ---- library calls ----
\* generate_trim reads the object and writes none of its fields, so every call
\* starts from the object as constructed; a behaviour follows one call.
GenerateTrim(start_time, end_time) ==
    LET r == generate_trim(start_time, end_time)
    IN  /\ request = <<>>
        /\ request' = <<start_time, end_time>>
        /\ trim_files' = r.files
        /\ fast_trims_cmd' = r.fast_trims
        /\ slow_trims_cmd' = r.slow_trims
        /\ UNCHANGED <<objectVars, lookup, runVars>>

FindBefore(timestamp) ==
    /\ lookup' = [fn |-> "before", timestamp |-> timestamp,
                  result |-> find_before_timestamp(timestamp)]
    /\ UNCHANGED <<objectVars, planVars, runVars>>

FindAfter(timestamp) ==
    /\ lookup' = [fn |-> "after", timestamp |-> timestamp,
                  result |-> find_after_timestamp(timestamp)]
    /\ UNCHANGED <<objectVars, planVars, runVars>>

Next == \E start_time \in Times, end_time \in Times : GenerateTrim(start_time, end_time)

Spec == Init /\ [][Next]_vars

NextFind ==
    \/ \E timestamp \in Times : FindBefore(timestamp)
    \/ \E timestamp \in Times : FindAfter(timestamp)

SpecFind == Init /\ [][NextFind]_vars

\* ---- __main__ (lines 126-139) ----
\* line 127
MainGenerateTrim ==
    /\ pc = "constructed"
    /\ LET r == generate_trim(time_range[1], time_range[2])
       IN  /\ request' = time_range
           /\ trim_files' = r.files
           /\ fast_trims_cmd' = r.fast_trims
           /\ slow_trims_cmd' = r.slow_trims
    /\ pc' = "planned"
    /\ UNCHANGED <<objectVars, lookup, fast_run, slow_run, merge_run>>

\* lines 129-130: run() raises on a non-zero ffmpeg exit and the script ends
RunFastTrimsSwallow ==
    /\ pc = "planned"
    /\ Len(fast_trims_cmd) > 0
    /\ \E ok \in BOOLEAN :
        /\ fast_run' = IF ok THEN "ok" ELSE "failed"
        /\ pc' = "fast_done"
    /\ UNCHANGED <<objectVars, planVars, lookup, slow_run, merge_run>>

RunFastTrims ==
    /\ pc = "planned"
    /\ Len(fast_trims_cmd) > 0
    /\ \E ok \in BOOLEAN :
        /\ fast_run' = IF ok THEN "ok" ELSE "failed"
        /\ pc' = IF ok THEN "fast_done" ELSE "failed"
    /\ UNCHANGED <<objectVars, planVars, lookup, slow_run, merge_run>>

\* line 129, empty batch
SkipFastTrims ==
    /\ pc = "planned"
    /\ Len(fast_trims_cmd) = 0
    /\ pc' = "fast_done"
    /\ UNCHANGED <<objectVars, planVars, lookup, fast_run, slow_run, merge_run>>

\* lines 132-133
RunSlowTrims ==
    /\ pc = "fast_done"
    /\ Len(slow_trims_cmd) > 0
    /\ \E ok \in BOOLEAN :
        /\ slow_run' = IF ok THEN "ok" ELSE "failed"
        /\ pc' = IF ok THEN "slow_done" ELSE "failed"
    /\ UNCHANGED <<objectVars, planVars, lookup, fast_run, merge_run>>

\* line 132, empty batch
SkipSlowTrims ==
    /\ pc = "fast_done"
    /\ Len(slow_trims_cmd) = 0
    /\ pc' = "slow_done"
    /\ UNCHANGED <<objectVars, planVars, lookup, fast_run, slow_run, merge_run>>

\* lines 135-138: generate_merge writes the concat list, then the merge runs
RunMerge ==
    /\ pc = "slow_done"
    /\ \E ok \in BOOLEAN :
        /\ merge_run' = IF ok THEN "ok" ELSE "failed"
        /\ pc' = IF ok THEN "merged" ELSE "failed"
    /\ UNCHANGED <<objectVars, planVars, lookup, fast_run, slow_run>>

\* line 139
CleanTemp ==
    /\ pc = "merged"
    /\ pc' = "done"
    /\ UNCHANGED <<objectVars, planVars, lookup, fast_run, slow_run, merge_run>>

NextMain ==
    \/ MainGenerateTrim
    \/ RunFastTrims
    \/ SkipFastTrims
    \/ RunSlowTrims
    \/ SkipSlowTrims
    \/ RunMerge
    \/ CleanTemp

SpecMain == InitMain /\ [][NextMain]_vars

\* ---- properties ----
Planned == request # <<>>

Min(a, b) == IF a < b THEN a ELSE b
Max(a, b) == IF a > b THEN a ELSE b

\* the request brought into the session range
Clamp(t) == Max(time_range[1], Min(t, time_range[2]))

JobSeq == fast_trims_cmd \o slow_trims_cmd
Jobs == {JobSeq[i] : i \in 1..Len(JobSeq)}
JobOf(path) == CHOOSE j \in Jobs : j.path = path

\* the plan in `files` order, each entry with the job that writes it
Segments == [i \in 1..Len(trim_files) |-> JobOf(trim_files[i])]

KeyFrames == {key_frame_timestamps[i] : i \in 1..Len(key_frame_timestamps)}

\* the session range lies inside the media, [0, duration]
SessionInMedia == 0 <= time_range[1] /\ time_range[2] <= duration

InSession(start, end) ==
    /\ time_range[1] <= start
    /\ start <= end
    /\ end <= time_range[2]

\* C1: for a session range inside the media and a request start <= end, the
\* segments of the plan, in files order, taken as intervals [ss, to), tile
\* [Clamp(start), Clamp(end)]: the first starts at the clamped start, the last
\* ends at the clamped end, each starts where the previous one ends, and each
\* is an interval (ss <= to), so there is no gap and no overlap.
Coverage ==
    (Planned /\ SessionInMedia /\ request[1] <= request[2]) =>
        LET segs == Segments
            n == Len(segs)
        IN  IF n = 0 THEN Clamp(request[1]) = Clamp(request[2])
            ELSE /\ segs[1].ss = Clamp(request[1])
                 /\ segs[n].to = Clamp(request[2])
                 /\ \A i \in 1..(n - 1) : segs[i + 1].ss = segs[i].to
                 /\ \A i \in 1..n : segs[i].ss <= segs[i].to

\* reference planner of the design: floor and ceiling by their meaning
floorKeyframe(t) ==
    IF \E k \in KeyFrames : k <= t
    THEN CHOOSE k \in KeyFrames : k <= t /\ \A m \in KeyFrames : m <= t => m <= k
    ELSE key_frame_timestamps[1]

ceilingKeyframe(t) ==
    IF \E k \in KeyFrames : k >= t
    THEN CHOOSE k \in KeyFrames : k >= t /\ \A m \in KeyFrames : m >= t => k <= m
    ELSE duration

ReferencePlan(start, end) ==
    LET innerStart == ceilingKeyframe(start)
        innerEnd == floorKeyframe(end)
    IN  IF innerStart > innerEnd
        THEN <<[ss |-> start, to |-> end, copy |-> FALSE]>>
        ELSE (IF start # innerStart
              THEN <<[ss |-> start, to |-> innerStart, copy |-> FALSE]>> ELSE <<>>)
             \o (IF innerStart < innerEnd
                 THEN <<[ss |-> innerStart, to |-> innerEnd, copy |-> TRUE]>> ELSE <<>>)
             \o (IF end # innerEnd
                 THEN <<[ss |-> innerEnd, to |-> end, copy |-> FALSE]>> ELSE <<>>)

PlanOf(segs) ==
    [i \in 1..Len(segs) |-> [ss |-> segs[i].ss, to |-> segs[i].to, copy |-> segs[i].copy]]

\* C2: the plan returned by generate_trim, read in files order, is the plan of
\* the reference planner for the request as generate_trim clamps it: one
\* Transcode [start, end] when ceiling(start) > floor(end), otherwise prefix
\* iff start # ceiling, Copy iff ceiling < floor, suffix iff end # floor; and
\* no job exists outside that plan.
AgreesWithReferencePlan ==
    Planned =>
        /\ \A i \in 1..Len(trim_files) :
              Cardinality({j \in Jobs : j.path = trim_files[i]}) = 1
        /\ PlanOf(Segments) = ReferencePlan(clamp_start(request[1]), clamp_end(request[2]))
        /\ Len(JobSeq) = Len(trim_files)

\* C2 witness: prefix, copy and suffix all present (the shape of scenario A)
AgreesWithReferencePlanWitness ==
    /\ Planned
    /\ key_frame_timestamps = <<0, 2, 3>>
    /\ request = <<1, 4>>
    /\ time_range = <<0, 4>>
    /\ PlanOf(Segments) = << [ss |-> 1, to |-> 2, copy |-> FALSE],
                             [ss |-> 2, to |-> 3, copy |-> TRUE],
                             [ss |-> 3, to |-> 4, copy |-> FALSE] >>

\* C3: find_before_timestamp(t), for t in [0, duration], is a keyframe; it is
\* the greatest keyframe <= t when t >= the first keyframe, and the first
\* keyframe otherwise.
FloorKeyframeCorrect ==
    (lookup.fn = "before" /\ lookup.timestamp <= duration) =>
        /\ lookup.result \in KeyFrames
        /\ IF lookup.timestamp >= key_frame_timestamps[1]
           THEN /\ lookup.result <= lookup.timestamp
                /\ \A k \in KeyFrames : k <= lookup.timestamp => k <= lookup.result
           ELSE lookup.result = key_frame_timestamps[1]

\* C3 witness: a lookup that lands strictly between two keyframes, after a
\* duplicated one
FloorKeyframeWitness ==
    /\ lookup.fn = "before"
    /\ key_frame_timestamps = <<1, 1, 3>>
    /\ lookup.timestamp = 2
    /\ lookup.result = 1

\* C4: find_after_timestamp(t) is the least keyframe >= t when t <= the last
\* keyframe, and is duration when t is after the last keyframe.
CeilingKeyframeCorrect ==
    lookup.fn = "after" =>
        IF lookup.timestamp <= key_frame_timestamps[Len(key_frame_timestamps)]
        THEN /\ lookup.result \in KeyFrames
             /\ lookup.result >= lookup.timestamp
             /\ \A k \in KeyFrames : k >= lookup.timestamp => lookup.result <= k
        ELSE lookup.result = duration

\* C4 witness: a lookup after the last keyframe answers duration, which is
\* not a keyframe
CeilingKeyframeWitness ==
    /\ lookup.fn = "after"
    /\ lookup.timestamp > key_frame_timestamps[Len(key_frame_timestamps)]
    /\ duration > key_frame_timestamps[Len(key_frame_timestamps)]
    /\ lookup.result = duration

\* C5: for a session range inside the media and any request, every job of the
\* plan lies in the session range and is well formed:
\* sessionStart <= ss <= to <= sessionEnd.
SessionContainment ==
    (Planned /\ SessionInMedia) =>
        \A j \in Jobs :
            /\ time_range[1] <= j.ss
            /\ j.ss <= j.to
            /\ j.to <= time_range[2]

\* C6: with a session range inside the media, a request whose start is after
\* its end, as given or after clamping into the session range, is rejected: no
\* file, no copy job, no transcode job.
InvalidRangeRejected ==
    (Planned /\ SessionInMedia
             /\ (request[1] > request[2]
                 \/ clamp_start(request[1]) > clamp_end(request[2]))) =>
        /\ trim_files = <<>>
        /\ fast_trims_cmd = <<>>
        /\ slow_trims_cmd = <<>>

\* C7: with a session range inside the media, a request with start = end
\* inside it yields an empty plan (or a rejection, which leaves no plan
\* either); no job with ss = to is emitted.
ZeroLengthRequestEmpty ==
    (Planned /\ SessionInMedia /\ request[1] = request[2]
             /\ InSession(request[1], request[2])) =>
        /\ trim_files = <<>>
        /\ fast_trims_cmd = <<>>
        /\ slow_trims_cmd = <<>>

\* C8: for a request start <= end inside the session range, a copy job runs
\* from the least keyframe >= start to the greatest keyframe <= end (both
\* keyframes), a copy job exists whenever two distinct keyframes lie in
\* [start, end], and no keyframe lies strictly inside a transcode job.
Minimality ==
    (Planned /\ InSession(request[1], request[2])) =>
        /\ \A j \in Jobs : j.copy =>
              /\ j.ss \in KeyFrames
              /\ j.to \in KeyFrames
              /\ j.ss >= request[1]
              /\ \A k \in KeyFrames : k >= request[1] => j.ss <= k
              /\ j.to <= request[2]
              /\ \A k \in KeyFrames : k <= request[2] => k <= j.to
        /\ (\E k1, k2 \in KeyFrames :
               k1 < k2 /\ request[1] <= k1 /\ k2 <= request[2])
              => \E j \in Jobs : j.copy
        /\ \A j \in Jobs : ~j.copy =>
              ~\E k \in KeyFrames : j.ss < k /\ k < j.to

\* C8 witness: a request starting and ending on keyframes with a third
\* keyframe between them, answered by a copy job alone
MinimalityWitness ==
    /\ Planned
    /\ InSession(request[1], request[2])
    /\ key_frame_timestamps = <<1, 2, 3>>
    /\ request = <<1, 3>>
    /\ Jobs = {[ss |-> 1, to |-> 3, path |-> middle_file, copy |-> TRUE]}

BatchFailed == fast_run = "failed" \/ slow_run = "failed"

\* C9: the merge runs only after every non-empty batch has run successfully;
\* after a failed batch nothing further happens (no merge, no second run of
\* a batch), and no batch runs twice.
MergeBarrier ==
    /\ [](merge_run # "not_run" =>
            /\ Len(fast_trims_cmd) > 0 => fast_run = "ok"
            /\ Len(slow_trims_cmd) > 0 => slow_run = "ok")
    /\ [](BatchFailed => (merge_run = "not_run" /\ pc = "failed"))
    /\ [][~BatchFailed]_vars
    /\ [][/\ fast_run # "not_run" => fast_run' = fast_run
          /\ slow_run # "not_run" => slow_run' = slow_run
          /\ merge_run # "not_run" => merge_run' = merge_run]_vars

\* C9 witness: the copy batch succeeded, the transcode batch failed, and the
\* run stopped without a merge
MergeBarrierWitness ==
    /\ pc = "failed"
    /\ fast_run = "ok"
    /\ slow_run = "failed"
    /\ merge_run = "not_run"

PathsOf(jobs) == [i \in 1..Len(jobs) |-> jobs[i].path]

\* C10: copy jobs are exactly the fast batch and transcode jobs the slow
\* batch, each batch lists its jobs in the order of the merge list, and the
\* merge list names every job's output exactly once and nothing else.
BatchMergeConsistency ==
    Planned =>
        /\ \A i \in 1..Len(fast_trims_cmd) : fast_trims_cmd[i].copy
        /\ \A i \in 1..Len(slow_trims_cmd) : ~slow_trims_cmd[i].copy
        /\ \A i \in 1..Len(trim_files) :
              Cardinality({k \in 1..Len(JobSeq) : JobSeq[k].path = trim_files[i]}) = 1
        /\ \A k \in 1..Len(JobSeq) :
              Cardinality({i \in 1..Len(trim_files) : trim_files[i] = JobSeq[k].path}) = 1
        /\ Len(trim_files) = Len(fast_trims_cmd) + Len(slow_trims_cmd)
        /\ PathsOf(fast_trims_cmd) = SelectSeq(trim_files, LAMBDA f : JobOf(f).copy)
        /\ PathsOf(slow_trims_cmd) = SelectSeq(trim_files, LAMBDA f : ~JobOf(f).copy)

\* C10 witness: a plan with both batches non-empty and two transcode jobs
BatchMergeConsistencyWitness ==
    /\ Planned
    /\ Len(fast_trims_cmd) = 1
    /\ Len(slow_trims_cmd) = 2
    /\ trim_files = <<start_file, middle_file, end_file>>

====
